---- MODULE Spec2Model ----
(***************************************************************************)
(* Model of the docu_scan backend: the page compositor                     *)
(* (services/pdf_service.py), the Paperless-ngx upload client              *)
(* (services/paperless_service.py, routers/paperless.py), the settings     *)
(* store (services/settings_service.py) and the size estimator.            *)
(***************************************************************************)
EXTENDS Integers, Sequences, FiniteSets, TLC

(***************************************************************************)
(* Bounds of the model.                                                    *)
(***************************************************************************)
MaxImages == 3
MaxTags == 2
MaxPages == 4
MaxQuality == 101
MaxPayload == 2
MaxPrefix == 1
MaxDim == 10
NumWriters == 2

VARIABLES
    \* ---- generate_pdf_from_images ----
    images_base64,  \* the input list
    idx,            \* loop index of `for idx, img_base64 in enumerate(...)`, 0-based
    code,           \* canvas._code: content of the page being drawn
    pages,          \* pages already closed by showPage
    skipped,        \* indices whose processing raised (the except branch)
    pdf_pc,         \* "loop" | "save" | "done"
    \* ---- POST /api/paperless/upload ----
    settings,       \* app.config.settings: paperless_url, paperless_token
    request,        \* the PaperlessUploadRequest being served
    up_pc,          \* position of the handler
    pdf_bytes,      \* the generated PDF (its pages)
    tag_i,          \* position in `for tag_name in tags`
    tag_ids,        \* tag_ids list
    correspondent_id,
    document_type_id,
    calls,          \* downstream HTTP calls issued so far, with their outcome
    inflight,       \* indices in calls of the calls awaiting their response
    form,           \* the `data` dict of the upload POST
    result,         \* return value of upload_to_paperless
    response,       \* the HTTP response of the route
    \* ---- settings store ----
    file,           \* content of SETTINGS_FILE
    last_op,        \* the latest load_settings / save_settings call
    last_save,      \* the latest save_settings call
    \* ---- estimate_pdf_size ----
    num_pages,
    compression_quality,
    estimate,       \* the value returned
    est_pc,          \* "call" | "done"
    \* ---- data-URI prefix stripping ----
    uri_prefix,
    payload,
    with_prefix,
    without_prefix,
    stripped,
    strip_pc,
    \* ---- POST /api/pdf/generate ----
    gen_request,
    gen_response,
    gen_started,
    gen_pc,
    \* ---- placement on the A4 page ----
    img_width,
    img_height,
    draw_width,
    draw_height,
    x_offset,
    y_offset,
    place_pc,
    \* ---- concurrent use of the settings file ----
    raw_file,
    writer_pc,
    writer_arg,
    loaded,
    overlapped

storeVars == <<file, last_op, last_save>>

estVars == <<num_pages, compression_quality, estimate, est_pc>>

uploadVars == <<settings, request, up_pc, pdf_bytes, tag_i, tag_ids,
                correspondent_id, document_type_id, calls, inflight, form,
                result, response>>

pdfVars == <<images_base64, idx, code, pages, skipped, pdf_pc>>

prefixVars == <<uri_prefix, payload, with_prefix, without_prefix, stripped, strip_pc>>

genVars == <<gen_request, gen_response, gen_started, gen_pc>>

placeVars == <<img_width, img_height, draw_width, draw_height, x_offset, y_offset, place_pc>>

raceVars == <<raw_file, writer_pc, writer_arg, loaded, overlapped>>

notPrefix == <<pdfVars, uploadVars, storeVars, estVars, genVars, placeVars, raceVars>>

notGen == <<pdfVars, uploadVars, storeVars, estVars, prefixVars, placeVars, raceVars>>

notPlace == <<pdfVars, uploadVars, storeVars, estVars, prefixVars, genVars, raceVars>>

notRace == <<pdfVars, uploadVars, storeVars, estVars, prefixVars, genVars, placeVars>>

vars == <<pdfVars, uploadVars, storeVars, estVars, prefixVars, genVars, placeVars, raceVars>>

notPdf == <<uploadVars, storeVars, estVars, prefixVars, genVars, placeVars, raceVars>>

notUpload == <<pdfVars, storeVars, estVars, prefixVars, genVars, placeVars, raceVars>>

notStore == <<pdfVars, uploadVars, estVars, prefixVars, genVars, placeVars, raceVars>>

notEst == <<pdfVars, uploadVars, storeVars, prefixVars, genVars, placeVars, raceVars>>

----------------------------------------------------------------------------
(***************************************************************************)
(* Input strings.  A string is a sequence of tokens: "," is the comma,     *)
(* "hdr" a data-URI scheme text without comma, "A" and "B" the base64 text *)
(* of two decodable images, "X" valid base64 of bytes that are no image,   *)
(* "#" text that base64.b64decode rejects.                                 *)
(***************************************************************************)
\* a pixel without an alpha band
NoAlpha == "none"

\* alpha band values: fully transparent and fully opaque
Transparent == "transparent"

Opaque == "opaque"

\* one-pixel images as Image.open returns them: the mode, the colour of the
\* pixel and the value of its alpha band (NoAlpha for modes without one)
ImageTable ==
    [A |-> [id |-> "A", mode |-> "RGB",  px |-> "ink", alpha |-> NoAlpha],
     B |-> [id |-> "B", mode |-> "RGBA", px |-> "ink", alpha |-> Transparent],
     C |-> [id |-> "C", mode |-> "LA",   px |-> "ink", alpha |-> Transparent],
     D |-> [id |-> "D", mode |-> "L",    px |-> "ink", alpha |-> NoAlpha],
     E |-> [id |-> "E", mode |-> "RGBA", px |-> "ink", alpha |-> Opaque]]

ImageTokens == {"A", "B", "C", "D", "E"}

ImageStrings ==
    { <<"A">>, <<"B">>, <<"C">>, <<"D">>, <<"E">>,
      <<"hdr", ",", "A">>, <<"X">>, <<"#">> }

Range(s) == { s[i] : i \in 1..Len(s) }

FirstComma(s) == CHOOSE i \in 1..Len(s) : s[i] = "," /\ \A j \in 1..(i-1) : s[j] # ","

\* taking the part before the comma: split(',', 1)[0]
StripTakesPrefix(s) ==
    IF "," \in Range(s) THEN SubSeq(s, 1, FirstComma(s) - 1) ELSE s

\* pdf_service.py 47-48: img_base64.split(',', 1)[1] when ',' in img_base64
StripDataUri(s) ==
    IF "," \in Range(s) THEN SubSeq(s, FirstComma(s) + 1, Len(s)) ELSE s

\* pdf_service.py 51: base64.b64decode; "error" for text it rejects, otherwise
\* the decoded bytes (an image token when the text is exactly one image's text)
\* (b64decode without validate discards characters outside the base64
\* alphabet, such as a comma, before decoding)
B64Decode(s) ==
    LET t == SelectSeq(s, LAMBDA c : c # ",") IN
    IF "#" \in Range(t) THEN "error"
    ELSE IF Len(t) = 1 /\ t[1] \in ImageTokens THEN t[1]
    ELSE "garbage"

\* pdf_service.py 52: Image.open
NoImage == [ok |-> FALSE]

ImageOpen(bytes) ==
    IF bytes \in ImageTokens
    THEN [ok |-> TRUE, img |-> ImageTable[bytes]]
    ELSE NoImage

\* pdf_service.py 57: Image.new('RGB', img.size, (255, 255, 255))
Background(img) == [id |-> img.id, mode |-> "RGB", px |-> "white", alpha |-> NoAlpha]

\* Image.paste(im, mask=band): the background shows where the mask is 0
PasteWithMask(bg, img, band) ==
    [bg EXCEPT !.px = IF band = Transparent THEN bg.px ELSE img.px]

\* Image.paste(im) without a mask: im is converted to the mode of the
\* background (its alpha band is dropped) and replaces every pixel
PasteNoMask(bg, img) == [bg EXCEPT !.px = img.px]

\* pdf_service.py 55-62: composite onto a white RGB background unless RGB;
\* the alpha band is the mask only for mode RGBA
ConvertToRGB(img) ==
    IF img.mode # "RGB"
    THEN IF img.mode = "RGBA"
         THEN PasteWithMask(Background(img), img, img.alpha)
         ELSE PasteNoMask(Background(img), img)
    ELSE img

\* pdf_service.py 45-105: the try body up to drawImage; NoImage when it raises
ProcessImage(s) ==
    LET bytes == B64Decode(StripDataUri(s)) IN
    IF bytes = "error" THEN NoImage
    ELSE LET opened == ImageOpen(bytes) IN
         IF ~opened.ok THEN NoImage
         ELSE [ok |-> TRUE, img |-> ConvertToRGB(opened.img)]

\* canvas.showPage(): close the current page, start an empty one
ShowPage(pgs, cd) == [pages |-> Append(pgs, cd), code |-> <<>>]

\* an off-by-one in the last-image test: the last two images share a page
IsNotLastOffByOne(i, n) == i < n - 2

\* pdf_service.py 111: showPage unless this was the last index
IsNotLast(i, n) == i < n - 1

ImageLists == UNION { [1..n -> ImageStrings] : n \in 0..MaxImages }

\* a skipped image that still closes the page (a blank or truncated page)
AfterFailureShowPage(pgs, cd) == ShowPage(pgs, cd)

\* pdf_service.py 114-117: the except branch logs and continues
AfterFailure(pgs, cd) == [pages |-> pgs, code |-> cd]

\* pdf_service.py 44-117: the body of the for loop for index i (0-based) on a
\* canvas holding closed pages pgs and current page content cd
LoopBody(imgs, i, pgs, cd) ==
    LET res == ProcessImage(imgs[i + 1]) IN
    IF ~res.ok
    THEN AfterFailure(pgs, cd)
    ELSE LET drawn == Append(cd, res.img) IN
         IF IsNotLast(i, Len(imgs))
         THEN ShowPage(pgs, drawn)
         ELSE [pages |-> pgs, code |-> drawn]

\* pdf_service.py 120: canvas.save(); reportlab runs showPage first when the
\* current page holds data ("If there is current data a ShowPage is executed
\* automatically") and adds no page otherwise
CanvasSave(pgs, cd) ==
    IF Len(cd) > 0 THEN ShowPage(pgs, cd) ELSE [pages |-> pgs, code |-> cd]

RECURSIVE PdfLoop(_, _, _, _)
PdfLoop(imgs, i, pgs, cd) ==
    IF i >= Len(imgs) THEN CanvasSave(pgs, cd).pages
    ELSE LET nxt == LoopBody(imgs, i, pgs, cd) IN
         PdfLoop(imgs, i + 1, nxt.pages, nxt.code)

\* generate_pdf_from_images as a function of its input: the pages of the PDF
GeneratePdf(imgs) == PdfLoop(imgs, 0, <<>>, <<>>)

\* one iteration of the for loop, pdf_service.py 44-117
PdfLoopStep ==
    /\ pdf_pc = "loop"
    /\ idx < Len(images_base64)
    /\ LET nxt == LoopBody(images_base64, idx, pages, code) IN
       /\ pages' = nxt.pages
       /\ code' = nxt.code
    /\ skipped' = IF ProcessImage(images_base64[idx + 1]).ok
                  THEN skipped ELSE skipped \cup {idx}
    /\ idx' = idx + 1
    /\ UNCHANGED <<notPdf, images_base64, pdf_pc>>

\* the loop is exhausted
PdfLoopExit ==
    /\ pdf_pc = "loop"
    /\ idx = Len(images_base64)
    /\ pdf_pc' = "save"
    /\ UNCHANGED <<notPdf, images_base64, idx, code, pages, skipped>>

\* pdf_service.py 120-124: c.save() and return of the PDF bytes
PdfSave ==
    /\ pdf_pc = "save"
    /\ pages' = CanvasSave(pages, code).pages
    /\ code' = CanvasSave(pages, code).code
    /\ pdf_pc' = "done"
    /\ UNCHANGED <<notPdf, images_base64, idx, skipped>>

PdfNext == PdfLoopStep \/ PdfLoopExit \/ PdfSave

----------------------------------------------------------------------------
(***************************************************************************)
(* The upload route and upload_to_paperless.                               *)
(* None and the empty string are both falsy in the code's tests            *)
(* (`if tags`, `if correspondent`, `a or b`); "" stands for both.          *)
(***************************************************************************)
None == "None"

TagNames == {"Tax", "Bills"}

TagLists == UNION { [1..n -> TagNames] : n \in 0..MaxTags }

UploadImageLists == { <<>>, << <<"#">>, <<"hdr", ",", "A">> >> }

UploadRequests ==
    [images : UploadImageLists,
     tags : TagLists,
     correspondent : {"", "Acme"},
     document_type : {"", "Invoice"},
     paperless_url : {"", "http://override"},
     paperless_token : {"", "override-token"}]

Configs ==
    [paperless_url : {"", "http://configured"},
     paperless_token : {"", "configured-token"}]

\* the numeric id the document-management system holds for a name
IdOf(name) ==
    CASE name = "Tax" -> 1
      [] name = "Bills" -> 2
      [] name = "Acme" -> 3
      [] OTHER -> 4

\* the upstream error text of a non-2xx response
ErrorText(kind) == <<"Server error 500 for", kind>>

\* bodies of a 2xx answer to the upload POST: a bare task identifier, objects
\* with and without an id, another JSON value, and text that is no JSON
UploadBodies ==
    { [type |-> "string", val |-> "task-1"],
      [type |-> "object", val |-> [id |-> "doc-7"]],
      [type |-> "object", val |-> [task_id |-> "task-2"]],
      [type |-> "number", val |-> "12"],
      [type |-> "invalid", val |-> "<html>"] }

\* paperless_service.py 35-36: `a or b`
OrElse(a, b) == IF a # "" THEN a ELSE b

ResolvedUrl(req, cfg) == OrElse(req.paperless_url, cfg.paperless_url)

ResolvedToken(req, cfg) == OrElse(req.paperless_token, cfg.paperless_token)

\* the detail of a response: a fixed prefix and an embedded message
Detail(prefix, text) == [prefix |-> prefix, text |-> text]

\* a route that reports the failure without the exception's text
RouteExceptNoText(exc) ==
    IF exc.type \in {"ValueError", "JSONDecodeError"}
    THEN [status |-> 400, detail |-> Detail("", exc.text), document_id |-> None]
    ELSE [status |-> 500, detail |-> Detail("Upload failed", <<>>),
          document_id |-> None]

\* routers/paperless.py 69-75: the except clauses of upload_document
RouteExcept(exc) ==
    IF exc.type \in {"ValueError", "JSONDecodeError"}
    THEN [status |-> 400, detail |-> Detail("", exc.text), document_id |-> None]
    ELSE [status |-> 500, detail |-> Detail("Upload failed: ", exc.text),
          document_id |-> None]

\* routers/paperless.py 41-42 raise HTTPException(400) inside the try block;
\* HTTPException is an Exception, no ValueError, so line 71 catches it
NoImagesResponse ==
    RouteExcept([type |-> "HTTPException", text |-> <<"400: No images provided">>])

\* paperless_service.py 38-42: the configuration checks
ConfigError(url, token) ==
    IF url = "" THEN [type |-> "ValueError", text |-> <<"Paperless URL is not configured">>]
    ELSE IF token = "" THEN [type |-> "ValueError", text |-> <<"Paperless API token is not configured">>]
    ELSE [type |-> "none", text |-> <<>>]

\* paperless_service.py 50-51, 77, 80: `if tag_id: tag_ids.append(tag_id)`
AppendIfTruthy(ids, id) == IF id # 0 THEN Append(ids, id) ELSE ids

\* a tag loop that stops one tag early
TagsExhaustedEarly(tags, i) == i >= Len(tags) - 1

\* paperless_service.py 48: the tag loop has visited every tag
TagsExhausted(tags, i) == i >= Len(tags)

\* creating the tag also when its lookup failed
NeedsCreateAlsoOnError(outcome) == outcome \in {"empty", "error"}

\* paperless_service.py 113-120: a tag is created when the lookup answered 2xx
\* with no result; a failed lookup raises into the except branch
NeedsCreate(outcome) == outcome = "empty"

\* paperless_service.py 71-81: the form data of the upload
BuildForm(title, tids, cid, did) ==
    [title |-> title,
     tags |-> tids,
     correspondent |-> cid,
     document_type |-> did]

\* paperless_service.py 96-100: a string is wrapped, anything else passed on
NormalizeResult(body) ==
    IF body.type = "string"
    THEN [type |-> "object", val |-> [id |-> body.val]]
    ELSE body

\* routers/paperless.py 62-68: result.get('id') and the success response
SuccessResponse(res) ==
    IF res.type # "object"
    THEN RouteExcept([type |-> "AttributeError",
                      text |-> <<"object has no attribute 'get'">>])
    ELSE [status |-> 200,
          detail |-> Detail("", <<"Document uploaded successfully to Paperless-ngx">>),
          document_id |-> IF "id" \in DOMAIN res.val THEN res.val.id ELSE None]

NoBody == [type |-> "none", val |-> ""]

Call(kind, name) ==
    [kind |-> kind, name |-> name, outcome |-> "pending", text |-> <<>>,
     body |-> NoBody]

NoRequest ==
    [images |-> <<>>, tags |-> <<>>, correspondent |-> "", document_type |-> "",
     paperless_url |-> "", paperless_token |-> ""]

NoResponse == [status |-> 0, detail |-> Detail("", <<>>), document_id |-> None]

NoResult == [type |-> "none", val |-> ""]

NoForm == [title |-> "", tags |-> <<>>, correspondent |-> 0, document_type |-> 0]

\* issue a downstream call: it is logged and awaits its response
Send(call) ==
    /\ calls' = Append(calls, call)
    /\ inflight' = inflight \cup {Len(calls) + 1}

\* the response of the call awaited arrives
Receive(outcome, text, body) ==
    /\ calls' = [calls EXCEPT ![Len(calls)].outcome = outcome,
                              ![Len(calls)].text = text,
                              ![Len(calls)].body = body]
    /\ inflight' = inflight \ {Len(calls)}

\* routers/paperless.py 40-61 and paperless_service.py 34-44: the handler up to
\* its first downstream call
UploadDocument ==
    /\ up_pc = "idle"
    /\ \E req \in UploadRequests :
         /\ request' = req
         /\ IF req.images = <<>>
            THEN /\ response' = NoImagesResponse
                 /\ up_pc' = "done"
                 /\ pdf_bytes' = pdf_bytes
            ELSE /\ pdf_bytes' = GeneratePdf(req.images)
                 /\ LET err == ConfigError(ResolvedUrl(req, settings),
                                           ResolvedToken(req, settings)) IN
                    IF err.type # "none"
                    THEN /\ response' = RouteExcept(err)
                         /\ up_pc' = "done"
                    ELSE /\ response' = response
                         /\ up_pc' = "tags"
    /\ UNCHANGED <<notUpload, settings, tag_i, tag_ids, correspondent_id, document_type_id,
                   calls, inflight, form, result>>

\* paperless_service.py 109-112: GET /api/tags/?name__iexact=<tag_name>
TagLookupSend ==
    /\ up_pc = "tags"
    /\ ~TagsExhausted(request.tags, tag_i)
    /\ Send(Call("GET tags iexact", request.tags[tag_i + 1]))
    /\ up_pc' = "tag_lookup"
    /\ UNCHANGED <<notUpload, settings, request, pdf_bytes, tag_i, tag_ids, correspondent_id,
                   document_type_id, form, result, response>>

\* paperless_service.py 113-117 and 128-131, 50-51
TagLookupReceive ==
    /\ up_pc = "tag_lookup"
    /\ \E outcome \in {"error", "found", "empty"} :
         /\ Receive(outcome, IF outcome = "error" THEN ErrorText("GET tags") ELSE <<>>, NoBody)
         /\ IF NeedsCreate(outcome)
            THEN /\ UNCHANGED <<tag_ids, tag_i>>
                 /\ up_pc' = "tag_create"
            ELSE /\ tag_ids' = AppendIfTruthy(tag_ids,
                                 IF outcome = "found"
                                 THEN IdOf(request.tags[tag_i + 1]) ELSE 0)
                 /\ tag_i' = tag_i + 1
                 /\ up_pc' = "tags"
    /\ UNCHANGED <<notUpload, settings, request, pdf_bytes, correspondent_id,
                   document_type_id, form, result, response>>

\* paperless_service.py 120-124: POST /api/tags/ {'name': tag_name}
TagCreateSend ==
    /\ up_pc = "tag_create"
    /\ Send(Call("POST tags", request.tags[tag_i + 1]))
    /\ up_pc' = "tag_created"
    /\ UNCHANGED <<notUpload, settings, request, pdf_bytes, tag_i, tag_ids, correspondent_id,
                   document_type_id, form, result, response>>

\* paperless_service.py 125-131, 50-51
TagCreateReceive ==
    /\ up_pc = "tag_created"
    /\ \/ /\ Receive("error", ErrorText("POST tags"), NoBody)
          /\ tag_ids' = AppendIfTruthy(tag_ids, 0)
       \/ /\ Receive("created", <<>>, NoBody)
          /\ tag_ids' = AppendIfTruthy(tag_ids, IdOf(request.tags[tag_i + 1]))
    /\ tag_i' = tag_i + 1
    /\ up_pc' = "tags"
    /\ UNCHANGED <<notUpload, settings, request, pdf_bytes, correspondent_id,
                   document_type_id, form, result, response>>

\* paperless_service.py 47-55: the tag loop is over
TagsDone ==
    /\ up_pc = "tags"
    /\ TagsExhausted(request.tags, tag_i)
    /\ up_pc' = "correspondent"
    /\ UNCHANGED <<notUpload, settings, request, pdf_bytes, tag_i, tag_ids, correspondent_id,
                   document_type_id, calls, inflight, form, result, response>>

\* paperless_service.py 55-56, 139-142
CorrespondentSend ==
    /\ up_pc = "correspondent"
    /\ request.correspondent # ""
    /\ Send(Call("GET correspondents iexact", request.correspondent))
    /\ up_pc' = "correspondent_lookup"
    /\ UNCHANGED <<notUpload, settings, request, pdf_bytes, tag_i, tag_ids, correspondent_id,
                   document_type_id, form, result, response>>

\* paperless_service.py 54-55: no correspondent given
CorrespondentSkip ==
    /\ up_pc = "correspondent"
    /\ request.correspondent = ""
    /\ up_pc' = "document_type"
    /\ UNCHANGED <<notUpload, settings, request, pdf_bytes, tag_i, tag_ids, correspondent_id,
                   document_type_id, calls, inflight, form, result, response>>

\* paperless_service.py 143-148
CorrespondentReceive ==
    /\ up_pc = "correspondent_lookup"
    /\ \/ /\ Receive("error", ErrorText("GET correspondents"), NoBody)
          /\ correspondent_id' = 0
       \/ /\ Receive("found", <<>>, NoBody)
          /\ correspondent_id' = IdOf(request.correspondent)
       \/ /\ Receive("empty", <<>>, NoBody)
          /\ correspondent_id' = 0
    /\ up_pc' = "document_type"
    /\ UNCHANGED <<notUpload, settings, request, pdf_bytes, tag_i, tag_ids,
                   document_type_id, form, result, response>>

\* paperless_service.py 59-60, 156-159
DocumentTypeSend ==
    /\ up_pc = "document_type"
    /\ request.document_type # ""
    /\ Send(Call("GET document_types iexact", request.document_type))
    /\ up_pc' = "document_type_lookup"
    /\ UNCHANGED <<notUpload, settings, request, pdf_bytes, tag_i, tag_ids, correspondent_id,
                   document_type_id, form, result, response>>

\* paperless_service.py 58-59: no document type given
DocumentTypeSkip ==
    /\ up_pc = "document_type"
    /\ request.document_type = ""
    /\ up_pc' = "upload"
    /\ UNCHANGED <<notUpload, settings, request, pdf_bytes, tag_i, tag_ids, correspondent_id,
                   document_type_id, calls, inflight, form, result, response>>

\* paperless_service.py 160-165
DocumentTypeReceive ==
    /\ up_pc = "document_type_lookup"
    /\ \/ /\ Receive("error", ErrorText("GET document_types"), NoBody)
          /\ document_type_id' = 0
       \/ /\ Receive("found", <<>>, NoBody)
          /\ document_type_id' = IdOf(request.document_type)
       \/ /\ Receive("empty", <<>>, NoBody)
          /\ document_type_id' = 0
    /\ up_pc' = "upload"
    /\ UNCHANGED <<notUpload, settings, request, pdf_bytes, tag_i, tag_ids,
                   correspondent_id, form, result, response>>

\* paperless_service.py 62-91: build the form and POST the document
UploadSend ==
    /\ up_pc = "upload"
    /\ form' = BuildForm("Scan", tag_ids, correspondent_id, document_type_id)
    /\ Send(Call("POST post_document", "scan.pdf"))
    /\ up_pc' = "uploading"
    /\ UNCHANGED <<notUpload, settings, request, pdf_bytes, tag_i, tag_ids, correspondent_id,
                   document_type_id, result, response>>

\* paperless_service.py 93-100 and routers/paperless.py 62-75
UploadReceive ==
    /\ up_pc = "uploading"
    /\ \/ /\ Receive("error", ErrorText("POST post_document"), NoBody)
          /\ result' = result
          /\ response' = RouteExcept([type |-> "HTTPStatusError",
                                      text |-> ErrorText("POST post_document")])
       \/ \E body \in UploadBodies :
          /\ Receive("ok", <<>>, body)
          /\ IF body.type = "invalid"
             THEN /\ result' = result
                  /\ response' = RouteExcept([type |-> "JSONDecodeError",
                                              text |-> <<"Expecting value">>])
             ELSE /\ result' = NormalizeResult(body)
                  /\ response' = SuccessResponse(NormalizeResult(body))
    /\ up_pc' = "done"
    /\ UNCHANGED <<notUpload, settings, request, pdf_bytes, tag_i, tag_ids, correspondent_id,
                   document_type_id, form>>

UploadNext ==
    \/ UploadDocument
    \/ TagLookupSend \/ TagLookupReceive \/ TagCreateSend \/ TagCreateReceive
    \/ TagsDone
    \/ CorrespondentSend \/ CorrespondentSkip \/ CorrespondentReceive
    \/ DocumentTypeSend \/ DocumentTypeSkip \/ DocumentTypeReceive
    \/ UploadSend \/ UploadReceive

----------------------------------------------------------------------------
(***************************************************************************)
(* POST /api/pdf/generate.                                                 *)
(***************************************************************************)
GenerateImageLists == { <<>>, << <<"A">> >>, << <<"#">>, <<"B">> >> }

\* routers/pdf.py 16-19: PDFGenerateRequest
GenerateRequests ==
    [images : GenerateImageLists, title : {"Scanned Document", "Invoice"}]

NoGenRequest == [images |-> <<>>, title |-> ""]

NoGenResponse ==
    [status |-> 0, detail |-> Detail("", <<>>), body |-> <<>>, filename |-> ""]

\* routers/pdf.py 62-63: the except clause of generate_pdf
GenerateExcept(exc) ==
    [status |-> 500, detail |-> Detail("PDF generation failed: ", exc.text),
     body |-> <<>>, filename |-> ""]

\* routers/pdf.py 52-61: the streaming response carrying the PDF
GenerateSuccess(req, pdf) ==
    [status |-> 200, detail |-> Detail("", <<>>), body |-> pdf,
     filename |-> req.title]

\* routers/pdf.py 38-63: generate_pdf; the HTTPException(400) of line 40 is
\* raised inside the try block and caught by `except Exception` at line 62
GeneratePdfRoute ==
    /\ gen_pc = "idle"
    /\ \E req \in GenerateRequests :
         /\ gen_request' = req
         /\ IF req.images = <<>>
            THEN /\ gen_response' =
                        GenerateExcept([type |-> "HTTPException",
                                        text |-> <<"400: No images provided">>])
                 /\ gen_started' = FALSE
            ELSE /\ gen_response' = GenerateSuccess(req, GeneratePdf(req.images))
                 /\ gen_started' = TRUE
    /\ gen_pc' = "done"
    /\ UNCHANGED notGen

GenerateNext == GeneratePdfRoute

----------------------------------------------------------------------------
(***************************************************************************)
(* Placement of an image on the A4 page, pdf_service.py 80-95.  Lengths    *)
(* are exact rationals <<numerator, denominator>> with a positive          *)
(* denominator, in millimetres (the code holds the same lengths in points, *)
(* a common factor of every length below).                                 *)
(***************************************************************************)
A4WidthMm == 210
A4HeightMm == 297

Rat(n) == <<n, 1>>

Zero == Rat(0)

RLe(a, b) == a[1] * b[2] <= b[1] * a[2]

RLt(a, b) == a[1] * b[2] < b[1] * a[2]

REq(a, b) == a[1] * b[2] = b[1] * a[2]

RSub(a, b) == <<a[1] * b[2] - b[1] * a[2], a[2] * b[2]>>

RMul(a, b) == <<a[1] * b[1], a[2] * b[2]>>

\* division by a positive rational
RDiv(a, b) == <<a[1] * b[2], a[2] * b[1]>>

\* pdf_service.py 42: page_width, page_height = A4
page_width == Rat(A4WidthMm)

page_height == Rat(A4HeightMm)

\* pdf_service.py 82
page_aspect == RDiv(page_width, page_height)

\* pdf_service.py 81: img.width / img.height
img_aspect(w, h) == RDiv(Rat(w), Rat(h))

\* the comparison of line 84 the other way round
FitToWidthFlipped(ia, pa) == RLt(ia, pa)

\* pdf_service.py 84: if img_aspect > page_aspect
FitToWidth(ia, pa) == RLt(pa, ia)

\* pdf_service.py 84-95: the rectangle handed to drawImage
Placement(w, h) ==
    LET ia == img_aspect(w, h)
        dw == IF FitToWidth(ia, page_aspect) THEN page_width
              ELSE RMul(page_height, ia)
        dh == IF FitToWidth(ia, page_aspect) THEN RDiv(page_width, ia)
              ELSE page_height
    IN [draw_width |-> dw,
        draw_height |-> dh,
        x_offset |-> RDiv(RSub(page_width, dw), Rat(2)),
        y_offset |-> RDiv(RSub(page_height, dh), Rat(2))]

\* image sizes in pixels: every small size, and sizes with the page's own
\* aspect ratio
Dims == (1..MaxDim) \cup {A4WidthMm \div 3, A4HeightMm \div 3, A4WidthMm, A4HeightMm}

\* pdf_service.py 80-105 for one image
PlaceImage ==
    /\ place_pc = "call"
    /\ LET pl == Placement(img_width, img_height) IN
       /\ draw_width' = pl.draw_width
       /\ draw_height' = pl.draw_height
       /\ x_offset' = pl.x_offset
       /\ y_offset' = pl.y_offset
    /\ place_pc' = "done"
    /\ UNCHANGED <<notPlace, img_width, img_height>>

PlaceNext == PlaceImage

----------------------------------------------------------------------------
(***************************************************************************)
(* Claims about the upload route.                                          *)
(***************************************************************************)
CallIndices == 1..Len(calls)

IsTagCall(c) == c.kind \in {"GET tags iexact", "POST tags"}

Rank(c) ==
    CASE IsTagCall(c) -> 1
      [] c.kind = "GET correspondents iexact" -> 2
      [] c.kind = "GET document_types iexact" -> 3
      [] OTHER -> 4

TagLookups == SelectSeq(calls, LAMBDA c : c.kind = "GET tags iexact")

UploadCalls == { i \in CallIndices : calls[i].kind = "POST post_document" }

Failed == { i \in CallIndices : calls[i].outcome = "error" }

\* the request passed the image and configuration checks
ReachedClient ==
    /\ request.images # <<>>
    /\ ResolvedUrl(request, settings) # ""
    /\ ResolvedToken(request, settings) # ""

\* C3 (as claimed): a finished upload request for which no token or no URL is
\* available was answered with HTTP 400, and no downstream call was made.
C3_MissingConfigIsClientError ==
    (up_pc = "done" /\ (ResolvedToken(request, settings) = ""
                        \/ ResolvedUrl(request, settings) = ""))
        => (response.status = 400 /\ calls = <<>>)

\* C4: the downstream calls of one request are issued one after another:
\* tag lookups (each followed at once by its creation, if any) in the order of
\* the tag list, then the correspondent lookup, then the document-type lookup,
\* then the upload POST, which is issued at most once and only after every
\* lookup has completed; no two calls are in flight at the same time.
C4_CallsAreSequential ==
    /\ Cardinality(inflight) <= 1
    /\ \A i \in CallIndices : calls[i].outcome = "pending" <=> i \in inflight
    /\ inflight \subseteq {Len(calls)}
    /\ \A i, j \in CallIndices : i < j => Rank(calls[i]) <= Rank(calls[j])
    /\ Len(TagLookups) <= Len(request.tags)
    /\ \A k \in 1..Len(TagLookups) : TagLookups[k].name = request.tags[k]
    /\ Cardinality(UploadCalls) <= 1
    /\ \A u \in UploadCalls :
         /\ u = Len(calls)
         /\ Len(TagLookups) = Len(request.tags)
         /\ (request.correspondent # "") <=>
               (\E i \in CallIndices : calls[i].kind = "GET correspondents iexact")
         /\ (request.document_type # "") <=>
               (\E i \in CallIndices : calls[i].kind = "GET document_types iexact")
    /\ (up_pc = "done" /\ ReachedClient) => Cardinality(UploadCalls) = 1

C4_Witness ==
    /\ up_pc = "done"
    /\ response.status = 200
    /\ Len(request.tags) = MaxTags
    /\ request.tags[1] # request.tags[MaxTags]
    /\ Len(calls) = 2 * MaxTags + 3

\* C5: a creation request is sent only for a tag, and only right after the
\* lookup of that tag answered with no match; a correspondent or document type
\* whose lookup finds nothing is not created and is left out of the form.
C5_OnlyTagsAreCreated ==
    /\ \A i \in CallIndices :
         calls[i].kind \in {"GET tags iexact", "POST tags",
                            "GET correspondents iexact",
                            "GET document_types iexact", "POST post_document"}
    /\ \A i \in CallIndices :
         calls[i].kind = "POST tags" =>
            /\ i > 1
            /\ calls[i - 1].kind = "GET tags iexact"
            /\ calls[i - 1].name = calls[i].name
            /\ calls[i - 1].outcome = "empty"
    /\ \A i \in CallIndices :
         (calls[i].kind = "GET correspondents iexact" /\ calls[i].outcome = "empty")
            => (correspondent_id = 0 /\ form.correspondent = 0)
    /\ \A i \in CallIndices :
         (calls[i].kind = "GET document_types iexact" /\ calls[i].outcome = "empty")
            => (document_type_id = 0 /\ form.document_type = 0)

C5_Witness ==
    /\ up_pc = "done"
    /\ response.status = 200
    /\ \E i \in CallIndices : calls[i].kind = "POST tags" /\ calls[i].outcome = "created"
    /\ \E i \in CallIndices :
         calls[i].kind = "GET correspondents iexact" /\ calls[i].outcome = "empty"
    /\ \E i \in CallIndices :
         calls[i].kind = "GET document_types iexact" /\ calls[i].outcome = "empty"

\* C6 (as claimed): when any downstream call of a finished request was
\* answered non-2xx, the route answered with a server error that embeds the
\* error text of that call.
C6_EveryFailureIsSurfaced ==
    up_pc = "done" =>
        \A i \in Failed :
            /\ response.status = 500
            /\ response.detail = Detail("Upload failed: ", calls[i].text)

\* C6 (amended): a non-2xx answer to the upload POST is surfaced as HTTP 500
\* with the upstream error text embedded; a non-2xx answer to a tag lookup, a
\* tag creation, a correspondent lookup or a document-type lookup is swallowed:
\* the name is left out of the form, the upload POST is still sent, and the
\* route's answer does not mention that failure.
C6_OnlyUploadFailureIsSurfaced ==
    /\ up_pc = "done" =>
         \A i \in Failed :
            IF i \in UploadCalls
            THEN /\ response.status = 500
                 /\ response.detail = Detail("Upload failed: ", calls[i].text)
            ELSE /\ Cardinality(UploadCalls) = 1
                 /\ response.detail.text # calls[i].text
    /\ \A i \in Failed :
         (form # NoForm) =>
            /\ IsTagCall(calls[i]) =>
                 Len(form.tags) < Len(TagLookups)
            /\ calls[i].kind = "GET correspondents iexact" => form.correspondent = 0
            /\ calls[i].kind = "GET document_types iexact" => form.document_type = 0

C6_Witness ==
    /\ up_pc = "done"
    /\ response.status = 500
    /\ \E i \in Failed : i \in UploadCalls
    /\ \E i \in Failed : calls[i].kind = "GET correspondents iexact"

\* C7 (as claimed): for every 2xx answer to the upload POST that carries a
\* JSON value (a bare string or a structured value), upload_to_paperless
\* returns an object of the shape {id: ...} and the route's document_id is
\* that identifier.
C7_ResultHasIdShape ==
    (up_pc = "done"
       /\ \E u \in UploadCalls :
            calls[u].outcome = "ok" /\ calls[u].body.type # "invalid")
        => /\ result.type = "object"
           /\ "id" \in DOMAIN result.val
           /\ response.status = 200
           /\ response.document_id = result.val.id

----------------------------------------------------------------------------
(***************************************************************************)
(* The same payload composed with and without a data-URI prefix.           *)
(***************************************************************************)
PayloadTokens == {"A", "B", "X", "#"}

PrefixTokens == {"hdr", "A"}

\* comma-free base64 payloads
Payloads == UNION { [1..n -> PayloadTokens] : n \in 0..MaxPayload }

\* prefixes whose only comma is their last character
Prefixes ==
    { Append(p, ",") : p \in UNION { [1..n -> PrefixTokens] : n \in 0..MaxPrefix } }

\* test_upload.py 13-16 and pdf_service.py 44-52: the compositor called on the
\* prefixed string and on the bare payload
ComposeBoth ==
    /\ strip_pc = "call"
    /\ stripped' = StripDataUri(uri_prefix \o payload)
    /\ with_prefix' = GeneratePdf(<< uri_prefix \o payload >>)
    /\ without_prefix' = GeneratePdf(<< payload >>)
    /\ strip_pc' = "done"
    /\ UNCHANGED <<notPrefix, uri_prefix, payload>>

PrefixNext == ComposeBoth

\* C11: for a comma-free payload b and a prefix p whose only comma is its last
\* character, composing p+b gives the same PDF as composing b; stripping
\* removes exactly the text up to and including the first comma and leaves a
\* comma-free string unchanged.
C11_PrefixIsStripped ==
    strip_pc = "done" =>
        /\ with_prefix = without_prefix
        /\ stripped = payload
        /\ StripDataUri(payload) = payload
        /\ \A q \in Prefixes : StripDataUri(uri_prefix \o payload \o q) = payload \o q

C11_Witness ==
    /\ strip_pc = "done"
    /\ uri_prefix = <<"hdr", ",">>
    /\ payload = <<"A">>
    /\ stripped = <<"A">>
    /\ Len(with_prefix) = 1
    /\ with_prefix = without_prefix

\* C13 (as claimed): a request with an empty image list, on either route, is
\* answered with HTTP 400 and detail "No images provided", and neither PDF
\* generation nor any downstream call is started for it.
C13_EmptyListIsClientError ==
    /\ (up_pc = "done" /\ request.images = <<>>)
          => /\ response.status = 400
             /\ response.detail = Detail("", <<"No images provided">>)
             /\ pdf_bytes = <<>>
             /\ calls = <<>>
    /\ (gen_pc = "done" /\ gen_request.images = <<>>)
          => /\ gen_response.status = 400
             /\ gen_response.detail = Detail("", <<"No images provided">>)
             /\ ~gen_started

\* the part of C13 the code keeps: nothing is started for an empty list
C13_EmptyListStartsNothing ==
    /\ (up_pc = "done" /\ request.images = <<>>)
          => (pdf_bytes = <<>> /\ calls = <<>> /\ response.status # 200)
    /\ (gen_pc = "done" /\ gen_request.images = <<>>)
          => (~gen_started /\ gen_response.body = <<>> /\ gen_response.status # 200)

----------------------------------------------------------------------------
(***************************************************************************)
(* Claims about the page compositor.                                       *)
(***************************************************************************)
Succeeds(s) == ProcessImage(s).ok

AllSucceed(imgs) == \A i \in 1..Len(imgs) : Succeeds(imgs[i])

\* the indices (1-based) of the images that are processed successfully
GoodIndices(imgs) == { i \in 1..Len(imgs) : Succeeds(imgs[i]) }

\* the k-th smallest element of a finite set of naturals
RECURSIVE Kth(_, _)
Kth(S, k) ==
    LET m == CHOOSE x \in S : \A y \in S : x <= y IN
    IF k = 1 THEN m ELSE Kth(S \ {m}, k - 1)

\* C1: when all N >= 1 input images decode and process, the returned PDF has
\* exactly N pages and page i holds image i alone (no blank page, no page
\* with two images, input order kept).
C1_OnePagePerImage ==
    (pdf_pc = "done" /\ Len(images_base64) >= 1 /\ AllSucceed(images_base64))
        => /\ Len(pages) = Len(images_base64)
           /\ \A i \in 1..Len(pages) :
                 pages[i] = << ProcessImage(images_base64[i]).img >>

C1_Witness ==
    /\ pdf_pc = "done"
    /\ Len(images_base64) = MaxImages
    /\ AllSucceed(images_base64)
    /\ Len(pages) = MaxImages
    /\ images_base64[1] # images_base64[2]

\* C2: a failing image never aborts the call: whatever the position of the
\* failing images, the call returns and the pages of the PDF are exactly the
\* successfully processed images, one per page, in input order (one corrupt
\* image among N gives N-1 pages).
C2_FailuresAreSkipped ==
    /\ pdf_pc \in {"loop", "save", "done"}
    /\ pdf_pc = "done" =>
          LET good == GoodIndices(images_base64) IN
          /\ Len(pages) = Cardinality(good)
          /\ skipped = { i - 1 : i \in (1..Len(images_base64)) \ good }
          /\ \A k \in 1..Len(pages) :
                pages[k] = << ProcessImage(images_base64[Kth(good, k)]).img >>

C2_Witness ==
    /\ pdf_pc = "done"
    /\ Len(images_base64) = MaxImages
    /\ Cardinality(GoodIndices(images_base64)) = MaxImages - 1
    /\ ~Succeeds(images_base64[MaxImages])
    /\ Len(pages) = MaxImages - 1

\* every image drawn on a closed page or on the current page
Drawn ==
    UNION { Range(pages[i]) : i \in 1..Len(pages) } \cup Range(code)

\* the image as Image.open returned it
SourceOf(d) == ImageTable[d.id]

\* the source composited over opaque white with its alpha band as the mask
BlendOverWhite(src) == IF src.alpha = Transparent THEN "white" ELSE src.px

\* C12: whatever the input mode, the drawn image is three-channel RGB with no
\* alpha channel, an RGB input is passed through unmodified, and an input that
\* carries an alpha channel is composited over white with that alpha channel
\* as the blend mask.
C12_AlphaIsBlendMask ==
    \A d \in Drawn :
        /\ d.mode = "RGB"
        /\ d.alpha = NoAlpha
        /\ SourceOf(d).mode = "RGB" => d = SourceOf(d)
        /\ SourceOf(d).alpha # NoAlpha => d.px = BlendOverWhite(SourceOf(d))

\* the part of C12 the code keeps: RGB output without alpha, RGB passed
\* through, and the alpha mask used for mode RGBA
C12_HoldsForRGBA ==
    \A d \in Drawn :
        /\ d.mode = "RGB"
        /\ d.alpha = NoAlpha
        /\ SourceOf(d).mode = "RGB" => d = SourceOf(d)
        /\ SourceOf(d).mode = "RGBA" => d.px = BlendOverWhite(SourceOf(d))

----------------------------------------------------------------------------
(***************************************************************************)
(* The settings store.  A string is a sequence of characters; "\"", "\\"   *)
(* and "u-umlaut" are the characters json.dump escapes, every other token  *)
(* stands for a run of plain characters.                                   *)
(***************************************************************************)
Fields == <<"paperlessUrl", "paperlessToken", "paperlessDefaultTags",
            "defaultEnhancement">>

FieldSet == { Fields[i] : i \in 1..Len(Fields) }

\* settings_service.py 11-16: the field defaults of UserSettings
Defaults ==
    [paperlessUrl |-> <<>>,
     paperlessToken |-> <<>>,
     paperlessDefaultTags |-> <<"docu_scan">>,
     defaultEnhancement |-> <<"auto">>]

SettingsValues ==
    [paperlessUrl : {<<>>, <<"http://p">>},
     paperlessToken : {<<>>, <<"tok", "\"">>},
     paperlessDefaultTags : {<<"docu_scan">>, <<>>, <<"u-umlaut", "\\">>},
     defaultEnhancement : {<<"auto">>, <<"none">>}]

\* json.dump (ensure_ascii): the JSON text of one character
JsonEscape(ch) ==
    CASE ch = "\"" -> <<"\\", "\"">>
      [] ch = "\\" -> <<"\\", "\\">>
      [] ch = "u-umlaut" -> <<"\\", "u00fc">>
      [] OTHER -> <<ch>>

RECURSIVE JsonEncodeString(_)
JsonEncodeString(s) ==
    IF s = <<>> THEN <<>> ELSE JsonEscape(Head(s)) \o JsonEncodeString(Tail(s))

\* json.load: the character an escape sequence stands for
JsonUnescape(ch) == IF ch = "u00fc" THEN "u-umlaut" ELSE ch

RECURSIVE JsonDecodeString(_)
JsonDecodeString(e) ==
    IF e = <<>> THEN <<>>
    ELSE IF Head(e) = "\\" /\ Len(e) >= 2
         THEN <<JsonUnescape(e[2])>> \o JsonDecodeString(SubSeq(e, 3, Len(e)))
         ELSE <<Head(e)>> \o JsonDecodeString(Tail(e))

Member(key, type, text) == [key |-> key, type |-> type, text |-> text]

Missing == [kind |-> "missing", members |-> <<>>]

\* a file holding text that is no JSON document (also a truncated write)
InvalidText == [kind |-> "invalid", members |-> <<>>]

\* settings_service.py 60-61: json.dump(settings.model_dump(), f, indent=2)
JsonDump(s) ==
    [kind |-> "object",
     members |-> [i \in 1..Len(Fields) |->
                    Member(Fields[i], "string", JsonEncodeString(s[Fields[i]]))]]

\* files the store may find at start: none, one it wrote, one with an unknown
\* field and a missing one, an empty object, text that is no JSON, a JSON
\* array, an object with a number where a string belongs, bytes that are no
\* UTF-8 text
InitialFiles ==
    { Missing,
      JsonDump([Defaults EXCEPT !.paperlessUrl = <<"http://p">>]),
      [kind |-> "object",
       members |-> << Member("paperlessToken", "string", <<"tok", "\\", "\"">>),
                      Member("theme", "string", <<"dark">>) >>],
      [kind |-> "object", members |-> <<>>],
      InvalidText,
      [kind |-> "array", members |-> <<>>],
      [kind |-> "object",
       members |-> << Member("paperlessUrl", "number", <<"5">>) >>],
      [kind |-> "not_utf8", members |-> <<>>] }

\* json.load of an object: the last member with a key gives the key's value
Keys(f) == { f.members[i].key : i \in 1..Len(f.members) }

LastMember(f, k) ==
    LET i == CHOOSE i \in 1..Len(f.members) :
                 /\ f.members[i].key = k
                 /\ \A j \in (i + 1)..Len(f.members) : f.members[j].key # k
    IN f.members[i]

\* a loader that takes an empty value for a missing one
FieldValueOrDefault(f, k) ==
    IF k \in Keys(f) /\ LastMember(f, k).text # <<>>
    THEN JsonDecodeString(LastMember(f, k).text)
    ELSE Defaults[k]

\* UserSettings(**data): a field missing from the data takes its default, keys
\* that are no field are ignored
FieldValue(f, k) ==
    IF k \in Keys(f) THEN JsonDecodeString(LastMember(f, k).text) ELSE Defaults[k]

\* UserSettings(**data) rejects a value that is no string
Validates(f) ==
    \A k \in FieldSet \cap Keys(f) : LastMember(f, k).type = "string"

Returned(v) == [raised |-> "none", value |-> v]

Raised(exc) == [raised |-> exc, value |-> Defaults]

\* settings_service.py 25-44 with the file f and the I/O fault met, if any
load_settings(f, fault) ==
    IF fault = "mkdir" THEN Raised("PermissionError")
    ELSE IF f.kind = "missing" THEN Returned(Defaults)
    ELSE IF fault = "open" THEN Returned(Defaults)
    ELSE IF f.kind = "invalid" THEN Returned(Defaults)
    ELSE IF f.kind = "not_utf8" THEN Raised("UnicodeDecodeError")
    ELSE IF f.kind = "array" THEN Raised("TypeError")
    ELSE IF ~Validates(f) THEN Raised("ValidationError")
    ELSE Returned([k \in FieldSet |-> FieldValue(f, k)])

\* settings_service.py 47-65: the value returned (or the exception raised) and
\* the file left behind
save_settings(f, s, fault) ==
    CASE fault = "mkdir" -> [raised |-> "PermissionError", ret |-> FALSE, file |-> f]
      [] fault = "open" -> [raised |-> "none", ret |-> FALSE, file |-> f]
      [] fault = "write" -> [raised |-> "none", ret |-> FALSE, file |-> InvalidText]
      [] OTHER -> [raised |-> "none", ret |-> TRUE, file |-> JsonDump(s)]

NoOp ==
    [op |-> "none", arg |-> Defaults, fault |-> "none", raised |-> "none",
     ret |-> FALSE, value |-> Defaults]

\* GET /api/settings: load_settings()
LoadSettings ==
    /\ \E fault \in {"none", "mkdir", "open"} :
         LET r == load_settings(file, fault) IN
         last_op' = [op |-> "load", arg |-> Defaults, fault |-> fault,
                     raised |-> r.raised, ret |-> FALSE, value |-> r.value]
    /\ last_save' = last_save
    /\ file' = file
    /\ UNCHANGED notStore

\* POST /api/settings: save_settings(s)
SaveSettings ==
    /\ \E s \in SettingsValues, fault \in {"none", "mkdir", "open", "write"} :
         LET r == save_settings(file, s, fault)
             o == [op |-> "save", arg |-> s, fault |-> fault,
                   raised |-> r.raised, ret |-> r.ret, value |-> Defaults]
         IN
         /\ last_op' = o
         /\ last_save' = o
         /\ file' = r.file
    /\ UNCHANGED notStore

StoreNext == LoadSettings \/ SaveSettings

----------------------------------------------------------------------------
(***************************************************************************)
(* The settings file under concurrent calls.  A call's file operations are *)
(* its steps: open(SETTINGS_FILE, 'w') truncates the file, the text is     *)
(* written from the start of the file when the `with` block closes it, and *)
(* a load reads the whole file at once.  The file is a sequence of tokens  *)
(* (indentation and line breaks left out).                                 *)
(***************************************************************************)
Writers == 1..NumWriters

\* what the file holds before the calls
InitialSettings == [Defaults EXCEPT !.paperlessUrl = <<"http://p">>]

\* the settings the writers save: a longer text, and one as long as the
\* initial text
RaceSettings ==
    { [InitialSettings EXCEPT !.paperlessToken = <<"tok", "\"">>],
      [InitialSettings EXCEPT !.defaultEnhancement = <<"none">>] }

\* the text json.dump writes for the members ms[i..]
RECURSIVE MembersText(_, _)
MembersText(ms, i) ==
    IF i > Len(ms) THEN <<>>
    ELSE (IF i > 1 THEN <<",">> ELSE <<>>)
         \o <<"\"", ms[i].key, "\"", ":", "\"">> \o ms[i].text \o <<"\"">>
         \o MembersText(ms, i + 1)

\* settings_service.py 61: the text of json.dump(settings.model_dump(), f)
JsonText(f) == <<"{">> \o MembersText(f.members, 1) \o <<"}">>

\* json.load: the closing quote of the string whose body starts at i, 0 when
\* the text ends first
RECURSIVE StringEnd(_, _)
StringEnd(t, i) ==
    IF i > Len(t) THEN 0
    ELSE IF t[i] = "\"" THEN i
    ELSE IF t[i] = "\\" THEN StringEnd(t, i + 2)
    ELSE StringEnd(t, i + 1)

\* json.load: the members of an object from position i on; text after the
\* closing brace ("Extra data") and text that ends early are no JSON document
RECURSIVE ParseMembers(_, _, _)
ParseMembers(t, i, acc) ==
    IF \/ i + 5 > Len(t)
       \/ t[i] # "\"" \/ t[i + 2] # "\"" \/ t[i + 3] # ":" \/ t[i + 4] # "\""
    THEN InvalidText
    ELSE LET e == StringEnd(t, i + 5) IN
         IF e = 0 \/ e >= Len(t) THEN InvalidText
         ELSE LET mem == Member(t[i + 1], "string", SubSeq(t, i + 5, e - 1)) IN
              IF t[e + 1] = "," THEN ParseMembers(t, e + 2, Append(acc, mem))
              ELSE IF t[e + 1] = "}" /\ e + 1 = Len(t)
                   THEN [kind |-> "object", members |-> Append(acc, mem)]
                   ELSE InvalidText

\* settings_service.py 40: json.load(f) of the text read; an empty file is no
\* JSON document
JsonLoad(t) ==
    IF Len(t) < 2 \/ t[1] # "{" THEN InvalidText
    ELSE IF t = <<"{", "}">> THEN [kind |-> "object", members |-> <<>>]
    ELSE ParseMembers(t, 2, <<>>)

\* a write of new at offset 0 of a file holding old: what lies beyond the
\* written text stays
Overlay(new, old) == new \o SubSeq(old, Len(new) + 1, Len(old))

\* settings_service.py 57-60: _ensure_settings_dir and open(SETTINGS_FILE, 'w')
SaveOpen(w) ==
    /\ writer_pc[w] = "idle"
    /\ \E s \in RaceSettings : writer_arg' = [writer_arg EXCEPT ![w] = s]
    /\ raw_file' = <<>>
    /\ writer_pc' = [writer_pc EXCEPT ![w] = "opened"]
    /\ overlapped' = (overlapped \/ \E v \in Writers : writer_pc[v] = "opened")
    /\ UNCHANGED <<notRace, loaded>>

\* settings_service.py 61-62: json.dump into the file object's buffer, flushed
\* when the `with` block closes the file; return True
SaveWriteClose(w) ==
    /\ writer_pc[w] = "opened"
    /\ raw_file' = Overlay(JsonText(JsonDump(writer_arg[w])), raw_file)
    /\ writer_pc' = [writer_pc EXCEPT ![w] = "done"]
    /\ UNCHANGED <<notRace, writer_arg, loaded, overlapped>>

\* settings_service.py 32-44: load_settings of another request
LoadRace ==
    /\ LET r == load_settings(JsonLoad(raw_file), "none") IN
       loaded' = [op |-> "load", arg |-> Defaults, fault |-> "none",
                  raised |-> r.raised, ret |-> FALSE, value |-> r.value]
    /\ overlapped' = (overlapped \/ \E v \in Writers : writer_pc[v] = "opened")
    /\ UNCHANGED <<notRace, raw_file, writer_pc, writer_arg>>

RaceNext ==
    \/ \E w \in Writers : SaveOpen(w)
    \/ \E w \in Writers : SaveWriteClose(w)
    \/ LoadRace

\* the settings a load may return: those stored before the writes and those
\* of every write begun
Storable ==
    {InitialSettings} \cup { writer_arg[w] : w \in { v \in Writers : writer_pc[v] # "idle" } }

\* C15 (as claimed): under every interleaving of save_settings and
\* load_settings calls, every load returns the settings stored before the
\* writes or those of one write in full (never the defaults, a mixture or an
\* error), and when the writers have finished the file holds the settings of
\* exactly one of them.
C15_SavesAreAtomic ==
    /\ loaded.op = "load" => (loaded.raised = "none" /\ loaded.value \in Storable)
    /\ (\A w \in Writers : writer_pc[w] = "done")
          => \E w \in Writers : raw_file = JsonText(JsonDump(writer_arg[w]))

\* the part of C15 the code keeps: calls that do not overlap behave as claimed
C15_HoldsWithoutOverlap ==
    ~overlapped =>
        /\ loaded.op = "load" => (loaded.raised = "none" /\ loaded.value \in Storable)
        /\ (\A w \in Writers : writer_pc[w] # "opened")
              => JsonLoad(raw_file) \in { JsonDump(s) : s \in Storable }

----------------------------------------------------------------------------
(***************************************************************************)
(* The size estimator.                                                     *)
(***************************************************************************)
HighQuality == 90
MediumQuality == 75
HighBytesPerPage == 400000
MediumBytesPerPage == 250000
LowBytesPerPage == 150000
Overhead == 10000

\* tiers that start above their thresholds
bytes_per_page_strict(q) ==
    IF q > HighQuality THEN HighBytesPerPage
    ELSE IF q > MediumQuality THEN MediumBytesPerPage
    ELSE LowBytesPerPage

\* pdf_service.py 144-149
bytes_per_page(q) ==
    IF q >= HighQuality THEN HighBytesPerPage
    ELSE IF q >= MediumQuality THEN MediumBytesPerPage
    ELSE LowBytesPerPage

\* pdf_service.py 132-154
estimate_pdf_size(p, q) == (p * bytes_per_page(q)) + Overhead

PageCounts == (0 - MaxPages)..MaxPages

Qualities == (0 - 1)..MaxQuality

\* POST /api/pdf/estimate-size
EstimateSize ==
    /\ est_pc = "call"
    /\ estimate' = estimate_pdf_size(num_pages, compression_quality)
    /\ est_pc' = "done"
    /\ UNCHANGED <<notEst, num_pages, compression_quality>>

EstNext == EstimateSize

----------------------------------------------------------------------------
(***************************************************************************)
(* Claims about the settings store and the size estimator.                 *)
(***************************************************************************)
\* C8: a load_settings() that reads the file returns, field by field, the
\* value of the latest save_settings call when that call returned True, also
\* for empty fields, fields that differ from the defaults and fields with
\* characters JSON escapes, and whatever was saved before.
C8_SaveLoadRoundTrip ==
    (last_op.op = "load" /\ last_op.fault = "none"
       /\ last_save.op = "save" /\ last_save.ret)
        => /\ last_op.raised = "none"
           /\ \A k \in FieldSet : last_op.value[k] = last_save.arg[k]

C8_Witness ==
    /\ last_op.op = "load"
    /\ last_op.fault = "none"
    /\ last_save.op = "save"
    /\ last_save.ret
    /\ last_save.arg.paperlessDefaultTags = <<>>
    /\ last_save.arg.paperlessToken = <<"tok", "\"">>
    /\ last_save.arg.defaultEnhancement # Defaults.defaultEnhancement
    /\ last_op.value = last_save.arg

\* C9 (as claimed): no load_settings or save_settings call raises; a load
\* that finds the file missing, unreadable or without a loadable settings
\* object returns the defaults; a save that cannot write returns False.
C9_FailuresAreValues ==
    /\ last_op.raised = "none"
    /\ (last_op.op = "load"
          /\ (last_op.fault # "none" \/ file.kind # "object" \/ ~Validates(file)))
         => last_op.value = Defaults
    /\ (last_op.op = "save" /\ last_op.fault # "none") => ~last_op.ret

\* C10: the estimate is pages * b(quality) + 10000 with b = 400000 from
\* quality 90, 250000 from 75 and 150000 below; estimate(3, 90) = 1210000,
\* estimate(3, 70) = 460000; for a page count >= 0 the estimate does not
\* decrease when the page count or the quality grows.
C10_EstimateFormula ==
    est_pc = "done" =>
        LET p == num_pages
            q == compression_quality
            b == IF q >= 90 THEN 400000 ELSE IF q >= 75 THEN 250000 ELSE 150000
        IN
        /\ estimate = p * b + 10000
        /\ (p = 3 /\ q = 90) => estimate = 1210000
        /\ (p = 3 /\ q = 70) => estimate = 460000
        /\ \A p2 \in PageCounts, q2 \in Qualities :
             (p >= 0 /\ p <= p2 /\ q <= q2)
                => estimate <= estimate_pdf_size(p2, q2)

C10_Witness ==
    /\ est_pc = "done"
    /\ num_pages = 3
    /\ compression_quality = 90
    /\ estimate = 1210000

----------------------------------------------------------------------------
(***************************************************************************)
(* Specifications.                                                         *)
(***************************************************************************)
NoConfig == [paperless_url |-> "", paperless_token |-> ""]

\* the page compositor called on an input list
InitPdf ==
    /\ images_base64 \in ImageLists
    /\ idx = 0 /\ code = <<>> /\ pages = <<>> /\ skipped = {} /\ pdf_pc = "loop"
    /\ settings = NoConfig /\ request = NoRequest /\ up_pc = "idle"
    /\ pdf_bytes = <<>> /\ tag_i = 0 /\ tag_ids = <<>>
    /\ correspondent_id = 0 /\ document_type_id = 0
    /\ calls = <<>> /\ inflight = {} /\ form = NoForm
    /\ result = NoResult /\ response = NoResponse
    /\ file = Missing /\ last_op = NoOp /\ last_save = NoOp
    /\ num_pages = 0 /\ compression_quality = 0 /\ estimate = 0 /\ est_pc = "idle"
    /\ uri_prefix = <<>> /\ payload = <<>> /\ with_prefix = <<>> /\ without_prefix = <<>> /\ stripped = <<>> /\ strip_pc = "idle"
    /\ gen_request = NoGenRequest /\ gen_response = NoGenResponse /\ gen_started = FALSE /\ gen_pc = "idle"
    /\ img_width = 1 /\ img_height = 1 /\ draw_width = Zero /\ draw_height = Zero /\ x_offset = Zero /\ y_offset = Zero /\ place_pc = "idle"
    /\ raw_file = <<>> /\ writer_pc = [w \in Writers |-> "idle"] /\ writer_arg = [w \in Writers |-> Defaults] /\ loaded = NoOp /\ overlapped = FALSE

SpecPdf == InitPdf /\ [][PdfNext]_vars

\* the upload route before a request, under each configuration
InitUpload ==
    /\ images_base64 = <<>>
    /\ idx = 0 /\ code = <<>> /\ pages = <<>> /\ skipped = {} /\ pdf_pc = "idle"
    /\ settings \in Configs /\ request = NoRequest /\ up_pc = "idle"
    /\ pdf_bytes = <<>> /\ tag_i = 0 /\ tag_ids = <<>>
    /\ correspondent_id = 0 /\ document_type_id = 0
    /\ calls = <<>> /\ inflight = {} /\ form = NoForm
    /\ result = NoResult /\ response = NoResponse
    /\ file = Missing /\ last_op = NoOp /\ last_save = NoOp
    /\ num_pages = 0 /\ compression_quality = 0 /\ estimate = 0 /\ est_pc = "idle"
    /\ uri_prefix = <<>> /\ payload = <<>> /\ with_prefix = <<>> /\ without_prefix = <<>> /\ stripped = <<>> /\ strip_pc = "idle"
    /\ gen_request = NoGenRequest /\ gen_response = NoGenResponse /\ gen_started = FALSE /\ gen_pc = "idle"
    /\ img_width = 1 /\ img_height = 1 /\ draw_width = Zero /\ draw_height = Zero /\ x_offset = Zero /\ y_offset = Zero /\ place_pc = "idle"
    /\ raw_file = <<>> /\ writer_pc = [w \in Writers |-> "idle"] /\ writer_arg = [w \in Writers |-> Defaults] /\ loaded = NoOp /\ overlapped = FALSE

SpecUpload == InitUpload /\ [][UploadNext]_vars

\* the settings store over each file it may find; requests run one at a time
InitStore ==
    /\ images_base64 = <<>>
    /\ idx = 0 /\ code = <<>> /\ pages = <<>> /\ skipped = {} /\ pdf_pc = "idle"
    /\ settings = NoConfig /\ request = NoRequest /\ up_pc = "idle"
    /\ pdf_bytes = <<>> /\ tag_i = 0 /\ tag_ids = <<>>
    /\ correspondent_id = 0 /\ document_type_id = 0
    /\ calls = <<>> /\ inflight = {} /\ form = NoForm
    /\ result = NoResult /\ response = NoResponse
    /\ file \in InitialFiles /\ last_op = NoOp /\ last_save = NoOp
    /\ num_pages = 0 /\ compression_quality = 0 /\ estimate = 0 /\ est_pc = "idle"
    /\ uri_prefix = <<>> /\ payload = <<>> /\ with_prefix = <<>> /\ without_prefix = <<>> /\ stripped = <<>> /\ strip_pc = "idle"
    /\ gen_request = NoGenRequest /\ gen_response = NoGenResponse /\ gen_started = FALSE /\ gen_pc = "idle"
    /\ img_width = 1 /\ img_height = 1 /\ draw_width = Zero /\ draw_height = Zero /\ x_offset = Zero /\ y_offset = Zero /\ place_pc = "idle"
    /\ raw_file = <<>> /\ writer_pc = [w \in Writers |-> "idle"] /\ writer_arg = [w \in Writers |-> Defaults] /\ loaded = NoOp /\ overlapped = FALSE

SpecStore == InitStore /\ [][StoreNext]_vars

\* one call of the size estimator on each input
InitEstimate ==
    /\ images_base64 = <<>>
    /\ idx = 0 /\ code = <<>> /\ pages = <<>> /\ skipped = {} /\ pdf_pc = "idle"
    /\ settings = NoConfig /\ request = NoRequest /\ up_pc = "idle"
    /\ pdf_bytes = <<>> /\ tag_i = 0 /\ tag_ids = <<>>
    /\ correspondent_id = 0 /\ document_type_id = 0
    /\ calls = <<>> /\ inflight = {} /\ form = NoForm
    /\ result = NoResult /\ response = NoResponse
    /\ file = Missing /\ last_op = NoOp /\ last_save = NoOp
    /\ num_pages \in PageCounts /\ compression_quality \in Qualities
    /\ estimate = 0 /\ est_pc = "call"
    /\ uri_prefix = <<>> /\ payload = <<>> /\ with_prefix = <<>> /\ without_prefix = <<>> /\ stripped = <<>> /\ strip_pc = "idle"
    /\ gen_request = NoGenRequest /\ gen_response = NoGenResponse /\ gen_started = FALSE /\ gen_pc = "idle"
    /\ img_width = 1 /\ img_height = 1 /\ draw_width = Zero /\ draw_height = Zero /\ x_offset = Zero /\ y_offset = Zero /\ place_pc = "idle"
    /\ raw_file = <<>> /\ writer_pc = [w \in Writers |-> "idle"] /\ writer_arg = [w \in Writers |-> Defaults] /\ loaded = NoOp /\ overlapped = FALSE

SpecEstimate == InitEstimate /\ [][EstNext]_vars

\* the compositor on a payload with and without a prefix
InitPrefix ==
    /\ images_base64 = <<>>
    /\ idx = 0 /\ code = <<>> /\ pages = <<>> /\ skipped = {} /\ pdf_pc = "idle"
    /\ settings = NoConfig /\ request = NoRequest /\ up_pc = "idle"
    /\ pdf_bytes = <<>> /\ tag_i = 0 /\ tag_ids = <<>>
    /\ correspondent_id = 0 /\ document_type_id = 0
    /\ calls = <<>> /\ inflight = {} /\ form = NoForm
    /\ result = NoResult /\ response = NoResponse
    /\ file = Missing /\ last_op = NoOp /\ last_save = NoOp
    /\ num_pages = 0 /\ compression_quality = 0 /\ estimate = 0 /\ est_pc = "idle"
    /\ uri_prefix \in Prefixes /\ payload \in Payloads
    /\ with_prefix = <<>> /\ without_prefix = <<>> /\ stripped = <<>>
    /\ strip_pc = "call"
    /\ gen_request = NoGenRequest /\ gen_response = NoGenResponse /\ gen_started = FALSE /\ gen_pc = "idle"
    /\ img_width = 1 /\ img_height = 1 /\ draw_width = Zero /\ draw_height = Zero /\ x_offset = Zero /\ y_offset = Zero /\ place_pc = "idle"
    /\ raw_file = <<>> /\ writer_pc = [w \in Writers |-> "idle"] /\ writer_arg = [w \in Writers |-> Defaults] /\ loaded = NoOp /\ overlapped = FALSE

SpecPrefix == InitPrefix /\ [][PrefixNext]_vars

\* both routes of the application serving one request each
InitRoutes ==
    /\ images_base64 = <<>>
    /\ idx = 0 /\ code = <<>> /\ pages = <<>> /\ skipped = {} /\ pdf_pc = "idle"
    /\ settings = [paperless_url |-> "http://configured", paperless_token |-> ""]
    /\ request = NoRequest /\ up_pc = "idle"
    /\ pdf_bytes = <<>> /\ tag_i = 0 /\ tag_ids = <<>>
    /\ correspondent_id = 0 /\ document_type_id = 0
    /\ calls = <<>> /\ inflight = {} /\ form = NoForm
    /\ result = NoResult /\ response = NoResponse
    /\ file = Missing /\ last_op = NoOp /\ last_save = NoOp
    /\ num_pages = 0 /\ compression_quality = 0 /\ estimate = 0 /\ est_pc = "idle"
    /\ uri_prefix = <<>> /\ payload = <<>> /\ with_prefix = <<>> /\ without_prefix = <<>> /\ stripped = <<>> /\ strip_pc = "idle"
    /\ gen_request = NoGenRequest /\ gen_response = NoGenResponse /\ gen_started = FALSE /\ gen_pc = "idle"
    /\ img_width = 1 /\ img_height = 1 /\ draw_width = Zero /\ draw_height = Zero /\ x_offset = Zero /\ y_offset = Zero /\ place_pc = "idle"
    /\ raw_file = <<>> /\ writer_pc = [w \in Writers |-> "idle"] /\ writer_arg = [w \in Writers |-> Defaults] /\ loaded = NoOp /\ overlapped = FALSE

SpecRoutes == InitRoutes /\ [][UploadNext \/ GenerateNext]_vars

\* the placement of an image of every size
InitPlacement ==
    /\ images_base64 = <<>>
    /\ idx = 0 /\ code = <<>> /\ pages = <<>> /\ skipped = {} /\ pdf_pc = "idle"
    /\ settings = NoConfig
    /\ request = NoRequest /\ up_pc = "idle"
    /\ pdf_bytes = <<>> /\ tag_i = 0 /\ tag_ids = <<>>
    /\ correspondent_id = 0 /\ document_type_id = 0
    /\ calls = <<>> /\ inflight = {} /\ form = NoForm
    /\ result = NoResult /\ response = NoResponse
    /\ file = Missing /\ last_op = NoOp /\ last_save = NoOp
    /\ num_pages = 0 /\ compression_quality = 0 /\ estimate = 0 /\ est_pc = "idle"
    /\ uri_prefix = <<>> /\ payload = <<>> /\ with_prefix = <<>> /\ without_prefix = <<>> /\ stripped = <<>> /\ strip_pc = "idle"
    /\ gen_request = NoGenRequest /\ gen_response = NoGenResponse /\ gen_started = FALSE /\ gen_pc = "idle"
    /\ img_width \in Dims /\ img_height \in Dims /\ draw_width = Zero /\ draw_height = Zero /\ x_offset = Zero /\ y_offset = Zero /\ place_pc = "call"
    /\ raw_file = <<>> /\ writer_pc = [w \in Writers |-> "idle"] /\ writer_arg = [w \in Writers |-> Defaults] /\ loaded = NoOp /\ overlapped = FALSE

SpecPlacement == InitPlacement /\ [][PlaceNext]_vars

\* requests using the settings file at the same time
InitRace ==
    /\ images_base64 = <<>>
    /\ idx = 0 /\ code = <<>> /\ pages = <<>> /\ skipped = {} /\ pdf_pc = "idle"
    /\ settings = NoConfig
    /\ request = NoRequest /\ up_pc = "idle"
    /\ pdf_bytes = <<>> /\ tag_i = 0 /\ tag_ids = <<>>
    /\ correspondent_id = 0 /\ document_type_id = 0
    /\ calls = <<>> /\ inflight = {} /\ form = NoForm
    /\ result = NoResult /\ response = NoResponse
    /\ file = Missing /\ last_op = NoOp /\ last_save = NoOp
    /\ num_pages = 0 /\ compression_quality = 0 /\ estimate = 0 /\ est_pc = "idle"
    /\ uri_prefix = <<>> /\ payload = <<>> /\ with_prefix = <<>> /\ without_prefix = <<>> /\ stripped = <<>> /\ strip_pc = "idle"
    /\ gen_request = NoGenRequest /\ gen_response = NoGenResponse /\ gen_started = FALSE /\ gen_pc = "idle"
    /\ img_width = 1 /\ img_height = 1 /\ draw_width = Zero /\ draw_height = Zero /\ x_offset = Zero /\ y_offset = Zero /\ place_pc = "idle"
    /\ raw_file = JsonText(JsonDump(InitialSettings)) /\ writer_pc = [w \in Writers |-> "idle"] /\ writer_arg = [w \in Writers |-> Defaults] /\ loaded = NoOp /\ overlapped = FALSE

SpecRace == InitRace /\ [][RaceNext]_vars

====
